---- MODULE Spec2Model ----
(***************************************************************************)
(* A model of the rtracer core: the linear-congruential random source      *)
(* (rng.rs), vector arithmetic (vec.rs), rays (ray.rs), sphere             *)
(* intersection (shape.rs), material scattering (material.rs) and the      *)
(* recursive colour integrator (lib.rs).                                   *)
(*                                                                         *)
(* Numbers.  An f64 is modelled as a fixed-point number: the integer n     *)
(* stands for n / Scale.  Addition and subtraction are exact; a product, a *)
(* quotient and a square root are rounded to the nearest representable     *)
(* value (ties away from zero), as every f64 operation rounds its result.  *)
(* The three IEEE special values are kept: PInf, NInf and NaN, with the    *)
(* IEEE rules for arithmetic and comparison on them (a comparison with NaN *)
(* is false, x/0 is an infinity, 0/0 and inf*0 are NaN).  Signed zeros are *)
(* not distinguished.                                                      *)
(***************************************************************************)
EXTENDS Integers, Sequences, FiniteSets, TLC

VARIABLES
    RNG_STATE,  \* rng.rs: static mut RNG_STATE
    pc,         \* control position of the operation in progress
    call,       \* the operation called and its arguments
    out,        \* the value the last completed operation returned
    ray,        \* get_ray_color: the ray of the innermost invocation
    world,      \* get_ray_color: the shapes, in iteration order
    depth,      \* get_ray_color: max_depth of the innermost invocation entered
    stack,      \* get_ray_color: scattered_color of each suspended invocation
    local,      \* get_closest_collision: the loop's position and local variables
    log         \* history: what the operation in progress has done so far

vars == <<RNG_STATE, pc, call, out, ray, world, depth, stack, local, log>>

----------------------------------------------------------------------------
(* f64 *)

Scale == 1000
F64_MAX == 2000000000
PInf == F64_MAX + 1
NInf == -PInf
NaN == F64_MAX + 2
\* f64::EPSILON (2.2e-16) lies below the resolution: the smallest positive value
F64_EPSILON == 1

\* let v = ...; the value is computed once and F reads it
Let(v, F(_)) == F(v)

IsNaN(x) == x = NaN
IsInf(x) == x = PInf \/ x = NInf
IsFinite(x) == ~IsNaN(x) /\ ~IsInf(x)

Sgn(x) == IF x > 0 THEN 1 ELSE IF x < 0 THEN -1 ELSE 0
Abs(x) == IF x < 0 THEN -x ELSE x

\* n / d for integers n >= 0, d > 0, rounded to nearest, ties upward
RoundDiv(n, d) == (n + d \div 2) \div d

RECURSIVE ISqrtIn(_, _, _)
ISqrtIn(n, lo, hi) ==
    IF lo >= hi THEN lo
    ELSE LET mid == (lo + hi + 1) \div 2
         IN  IF mid * mid <= n THEN ISqrtIn(n, mid, hi) ELSE ISqrtIn(n, lo, mid - 1)

\* the integer nearest to the square root of n >= 0
ISqrt(n) ==
    LET r == ISqrtIn(n, 0, IF n < 46340 THEN n ELSE 46340)
    IN  IF n - r * r > r THEN r + 1 ELSE r

FNeg(a) == IF IsNaN(a) THEN NaN ELSE -a

FAdd(a, b) ==
    IF IsNaN(a) \/ IsNaN(b) THEN NaN
    ELSE IF IsInf(a) THEN (IF IsInf(b) /\ a # b THEN NaN ELSE a)
    ELSE IF IsInf(b) THEN b
    ELSE a + b

FSub(a, b) == FAdd(a, FNeg(b))

FMul(a, b) ==
    IF IsNaN(a) \/ IsNaN(b) THEN NaN
    ELSE IF IsInf(a) \/ IsInf(b)
         THEN (IF a = 0 \/ b = 0 THEN NaN
               ELSE IF Sgn(a) * Sgn(b) > 0 THEN PInf ELSE NInf)
    ELSE LET x == Abs(a)
             y == Abs(b)
         IN  Sgn(a) * Sgn(b) * ((x \div Scale) * y + RoundDiv((x % Scale) * y, Scale))

FDiv(a, b) ==
    IF IsNaN(a) \/ IsNaN(b) THEN NaN
    ELSE IF IsInf(a)
         THEN (IF IsInf(b) THEN NaN
               ELSE IF Sgn(a) * (IF b < 0 THEN -1 ELSE 1) > 0 THEN PInf ELSE NInf)
    ELSE IF IsInf(b) THEN 0
    ELSE IF b = 0
         THEN (IF a = 0 THEN NaN ELSE IF a > 0 THEN PInf ELSE NInf)
    ELSE LET x == Abs(a)
             y == Abs(b)
         IN  Sgn(a) * Sgn(b) * ((x \div y) * Scale + RoundDiv((x % y) * Scale, y))

FSqrt(a) ==
    IF IsNaN(a) \/ a < 0 THEN NaN
    ELSE IF a = PInf THEN PInf
    ELSE ISqrt(a * Scale)

FLt(a, b) == ~IsNaN(a) /\ ~IsNaN(b) /\ a < b
FLe(a, b) == ~IsNaN(a) /\ ~IsNaN(b) /\ a <= b
FGt(a, b) == FLt(b, a)
FGe(a, b) == FLe(b, a)
FEq(a, b) == ~IsNaN(a) /\ ~IsNaN(b) /\ a = b

\* f64::min and f64::max return the other operand when one is NaN
FMin(a, b) == IF IsNaN(a) THEN b ELSE IF IsNaN(b) THEN a ELSE IF a < b THEN a ELSE b
FMax(a, b) == IF IsNaN(a) THEN b ELSE IF IsNaN(b) THEN a ELSE IF a > b THEN a ELSE b
FAbs(a) == IF IsNaN(a) THEN NaN ELSE Abs(a)
FClamp(x, lo, hi) == IF FLt(x, lo) THEN lo ELSE IF FGt(x, hi) THEN hi ELSE x

\* f64::powi(x, n) for n >= 0
RECURSIVE FPowi(_, _)
FPowi(x, n) == IF n = 0 THEN Scale ELSE FMul(x, FPowi(x, n - 1))

\* (n as f64) / (d as f64) for integers 0 <= n, 0 < d
FRatio(n, d) == RoundDiv(n * Scale, d)

----------------------------------------------------------------------------
(* vec.rs *)

Vec3(x, y, z) == <<x, y, z>>
ZERO == Vec3(0, 0, 0)

VAdd(v, w) == Vec3(FAdd(v[1], w[1]), FAdd(v[2], w[2]), FAdd(v[3], w[3]))
VSub(v, w) == Vec3(FSub(v[1], w[1]), FSub(v[2], w[2]), FSub(v[3], w[3]))
VNeg(v) == Vec3(FNeg(v[1]), FNeg(v[2]), FNeg(v[3]))
VMul(v, w) == Vec3(FMul(v[1], w[1]), FMul(v[2], w[2]), FMul(v[3], w[3]))
VScale(v, s) == Vec3(FMul(v[1], s), FMul(v[2], s), FMul(v[3], s))

\* derived PartialEq on three f64 fields
VEq(v, w) == FEq(v[1], w[1]) /\ FEq(v[2], w[2]) /\ FEq(v[3], w[3])

norm_squared(v) == FAdd(FAdd(FMul(v[1], v[1]), FMul(v[2], v[2])), FMul(v[3], v[3]))
norm(v) == FSqrt(FAdd(FAdd(FMul(v[1], v[1]), FMul(v[2], v[2])), FMul(v[3], v[3])))
dot(v, w) == FAdd(FAdd(FMul(v[1], w[1]), FMul(v[2], w[2])), FMul(v[3], w[3]))

\* assert_ne!(norm, 0.0) fails exactly when the norm compares equal to zero
to_unit_vec_panics(v) == FEq(norm(v), 0)
to_unit_vec(v) == VScale(v, FDiv(Scale, norm(v)))

almost_zero(v) ==
    /\ FLt(FAbs(v[1]), F64_EPSILON)
    /\ FLt(FAbs(v[2]), F64_EPSILON)
    /\ FLt(FAbs(v[3]), F64_EPSILON)

----------------------------------------------------------------------------
(* rng.rs *)

RNG_SEED == 44
RNG_A == 8121
RNG_C == 28411
RNG_M == 134456

\* two steps of the generator taken at once
RngStepTwice(s) == (RNG_A * ((RNG_A * s + RNG_C) % RNG_M) + RNG_C) % RNG_M

\* RNG_STATE = (RNG_A * RNG_STATE + RNG_C) % RNG_M on i32 (% truncates toward zero)
RngStep(s) ==
    LET x == RNG_A * s + RNG_C
    IN  IF x >= 0 THEN x % RNG_M ELSE -((-x) % RNG_M)

\* rand_f64: the new generator state and the value returned
rand_f64(s, t_min, t_max) ==
    Let(RngStep(s), LAMBDA s1 :
    Let(FAdd(0, FRatio(s1, RNG_M - 1)), LAMBDA t :
        [state |-> s1,
         value |-> FAdd(FMul(FSub(t_max, t_min), t), FMul(t_min, t))]))

\* rand_vec: x, y and z are drawn in this order
rand_vec(s, min_val, max_val) ==
    Let(rand_f64(s, min_val, max_val), LAMBDA rx :
    Let(rand_f64(rx.state, min_val, max_val), LAMBDA ry :
    Let(rand_f64(ry.state, min_val, max_val), LAMBDA rz :
        [state |-> rz.state, value |-> Vec3(rx.value, ry.value, rz.value)])))


\* debug_assert!(t_min <= t_max)
rand_f64_panics(t_min, t_max) == ~FLe(t_min, t_max)

\* the rejection loop without its test: the first vector drawn is thrown away
RECURSIVE rand_unit_vec_retry(_, _)
rand_unit_vec_retry(s, n) ==
    Let(rand_vec(s, -10 * Scale, 10 * Scale), LAMBDA v :
        IF n > 1
        THEN [state |-> v.state,
              panics |-> to_unit_vec_panics(v.value),
              value |-> to_unit_vec(v.value),
              iterations |-> n]
        ELSE rand_unit_vec_retry(v.state, n + 1))

\* rand_unit_vec: iteration n of the rejection loop, entered in state s
RECURSIVE rand_unit_vec_loop(_, _)
rand_unit_vec_loop(s, n) ==
    Let(rand_vec(s, -10 * Scale, 10 * Scale), LAMBDA v :
        IF ~VEq(v.value, ZERO)
        THEN [state |-> v.state,
              panics |-> to_unit_vec_panics(v.value),
              value |-> to_unit_vec(v.value),
              iterations |-> n]
        ELSE rand_unit_vec_loop(v.state, n + 1))

rand_unit_vec(s) == rand_unit_vec_loop(s, 1)

----------------------------------------------------------------------------
(* ray.rs *)

Ray(origin, direction) == [origin |-> origin, direction |-> direction]

at(r, t) == VAdd(VScale(r.direction, t), r.origin)

----------------------------------------------------------------------------
(* material.rs: the Material enum *)

VACUUM_REFRACTION == Scale

Lambertian(albedo) == [kind |-> "Lambertian", albedo |-> albedo]
Metal(albedo, fuzzyness) == [kind |-> "Metal", albedo |-> albedo, fuzzyness |-> fuzzyness]
Dialectric(refraction_index) == [kind |-> "Dialectric", refraction_index |-> refraction_index]

----------------------------------------------------------------------------
(* shape.rs *)

Sphere(center, radius, material) ==
    [center |-> center, radius |-> radius, material |-> material]

NoCollision == [tag |-> "None"]

\* a window that excludes its two ends
OutsideWindowStrict(root, t_min, t_max) == FLe(root, t_min) \/ FGe(root, t_max)

\* root < t_min || root > t_max
OutsideWindow(root, t_min, t_max) == FLt(root, t_min) \/ FGt(root, t_max)

\* the quadratic's coefficients and discriminant for a ray and a sphere
Quadratic(sphere, r) ==
    Let(VSub(r.origin, sphere.center), LAMBDA delta :
    Let(norm_squared(r.direction), LAMBDA a :
    Let(dot(delta, r.direction), LAMBDA half_b :
    Let(FSub(norm_squared(delta), FMul(sphere.radius, sphere.radius)), LAMBDA c :
        [a |-> a, half_b |-> half_b, c |-> c,
         discriminant |-> FSub(FMul(half_b, half_b), FMul(a, c))]))))

SmallRoot(q) == FDiv(FSub(FNeg(q.half_b), FSqrt(q.discriminant)), q.a)
LargeRoot(q) == FDiv(FAdd(FNeg(q.half_b), FSqrt(q.discriminant)), q.a)

\* a dot product of 0 counted as outside
RayIsInsideStrict(direction, outward_normal) == FGt(dot(direction, outward_normal), 0)

\* ray.direction.dot(&outward_normal) >= 0.0
RayIsInside(direction, outward_normal) == FGe(dot(direction, outward_normal), 0)

\* the outward normal reported as it is
KeepOutward(outward_normal, ray_is_inside_sphere) == outward_normal

\* the normal reported: the outward normal turned against the ray
TowardsRay(outward_normal, ray_is_inside_sphere) ==
    IF ray_is_inside_sphere THEN VNeg(outward_normal) ELSE outward_normal

\* the collision record built for an accepted root
CollisionAt(sphere, r, root) ==
    Let(VScale(VSub(at(r, root), sphere.center), FDiv(Scale, sphere.radius)),
        LAMBDA outward_normal :
    Let(RayIsInside(r.direction, outward_normal), LAMBDA ray_is_inside_sphere :
        [tag |-> "Some",
         pos |-> at(r, root),
         normal |-> TowardsRay(outward_normal, ray_is_inside_sphere),
         ray_is_inside |-> ray_is_inside_sphere,
         t |-> root,
         material |-> sphere.material]))

\* the larger root tried before the smaller
AcceptedRootLargerFirst(q, t_min, t_max) ==
    Let(LargeRoot(q), LAMBDA root :
        IF ~OutsideWindow(root, t_min, t_max) THEN <<root>>
        ELSE Let(SmallRoot(q), LAMBDA root2 :
                 IF ~OutsideWindow(root2, t_min, t_max) THEN <<root2>> ELSE <<>>))

\* the root collide accepts for the window, if any: the smaller one first
AcceptedRoot(q, t_min, t_max) ==
    Let(SmallRoot(q), LAMBDA root :
        IF ~OutsideWindow(root, t_min, t_max) THEN <<root>>
        ELSE Let(LargeRoot(q), LAMBDA root2 :
                 IF ~OutsideWindow(root2, t_min, t_max) THEN <<root2>> ELSE <<>>))

\* discriminant < 0.0
NoRealRoot(q) == FLt(q.discriminant, 0)

\* Sphere::collide
collide(sphere, r, t_min, t_max) ==
    Let(Quadratic(sphere, r), LAMBDA q :
        IF NoRealRoot(q) THEN NoCollision
        ELSE Let(AcceptedRoot(q, t_min, t_max), LAMBDA roots :
                 IF roots = <<>> THEN NoCollision
                 ELSE CollisionAt(sphere, r, roots[1])))

----------------------------------------------------------------------------
(* material.rs: scattering *)

\* v minus its component along the normal taken once, not twice
project(v, normal) == VSub(v, VScale(normal, FMul(Scale, dot(v, normal))))

reflect(v, normal) == VSub(v, VScale(normal, FMul(2 * Scale, dot(v, normal))))

refract(v, normal, refraction_ratio) ==
    Let(FMin(FNeg(dot(v, normal)), Scale), LAMBDA cos_theta_1 :
    Let(FSqrt(FMax(FSub(Scale,
                        FMul(FMul(refraction_ratio, refraction_ratio),
                             FSub(Scale, FMul(cos_theta_1, cos_theta_1)))),
                   0)), LAMBDA cos_theta_2 :
        VAdd(VScale(v, refraction_ratio),
             VScale(normal, FSub(FMul(refraction_ratio, cos_theta_1), cos_theta_2)))))

\* the assertion made about a ratio of 1.0
reflectance_rejects_one(refraction_ratio) == FEq(refraction_ratio, Scale)

\* assert_ne!(refraction_ratio, -1.0)
reflectance_panics(refraction_ratio) == FEq(refraction_ratio, -Scale)

reflectance(cos_theta, refraction_ratio) ==
    Let(FDiv(FSub(Scale, refraction_ratio), FAdd(Scale, refraction_ratio)), LAMBDA q :
    Let(FMul(q, q), LAMBDA r0 :
        FAdd(r0, FMul(FSub(Scale, r0), FPowi(FSub(Scale, cos_theta), 5)))))

\* what scatter returns: Some((ray, color)), None, or a panic; with the generator
\* state it leaves behind
Scattered(s, r, color) == [tag |-> "Some", state |-> s, ray |-> r, color |-> color]
Absorbed(s) == [tag |-> "None", state |-> s]
Panic(s, what) == [tag |-> "Panic", state |-> s, what |-> what]

\* normal + u when normal . u > 0, else normal - u
\* the random vector always subtracted
OrientedAway(base, normal, u) == VSub(base, u)

Oriented(base, normal, u) ==
    IF FGt(dot(normal, u), 0) THEN VAdd(base, u) ELSE VSub(base, u)

ScatterLambertian(mat, s, input_ray, reflection_point, reflection_normal) ==
    Let(rand_unit_vec(s), LAMBDA ru :
    Let(Oriented(reflection_normal, reflection_normal, ru.value),
        LAMBDA scatter_direction :
        IF ru.panics THEN Panic(ru.state, "to_unit_vec")
        ELSE Scattered(ru.state,
                       Ray(reflection_point,
                           IF almost_zero(scatter_direction) THEN reflection_normal
                           ELSE scatter_direction),
                       mat.albedo)))

\* a direction at right angles to the normal kept as well
MetalKeepsGrazing(direction, reflection_normal) ==
    FGe(dot(direction, reflection_normal), 0)

\* scattered_ray.direction.dot(&reflection_normal) > 0.0
MetalKeeps(direction, reflection_normal) == FGt(dot(direction, reflection_normal), 0)

\* Metal: the reflected direction perturbed by the random unit vector u
MetalDirection(mat, u, input_ray, reflection_normal) ==
    Let(to_unit_vec(input_ray.direction), LAMBDA v :
    Let(reflect(v, reflection_normal), LAMBDA reflection :
    Let(VScale(u, FMin(mat.fuzzyness, Scale)), LAMBDA fuzzy_random_unit_vec :
        Oriented(reflection, reflection_normal, fuzzy_random_unit_vec))))

ScatterMetal(mat, s, input_ray, reflection_point, reflection_normal) ==
    IF to_unit_vec_panics(input_ray.direction) THEN Panic(s, "to_unit_vec")
    ELSE
    Let(rand_unit_vec(s), LAMBDA ru :
    Let(MetalDirection(mat, ru.value, input_ray, reflection_normal),
        LAMBDA scatter_direction :
        IF ru.panics THEN Panic(ru.state, "to_unit_vec")
        ELSE IF MetalKeeps(scatter_direction, reflection_normal)
             THEN Scattered(ru.state, Ray(reflection_point, scatter_direction), mat.albedo)
        ELSE Absorbed(ru.state)))

\* the two ratios taken the other way round
RefractionRatioSwapped(mat, ray_is_inside) ==
    IF ray_is_inside THEN FDiv(VACUUM_REFRACTION, mat.refraction_index)
    ELSE FDiv(mat.refraction_index, VACUUM_REFRACTION)

RefractionRatio(mat, ray_is_inside) ==
    IF ray_is_inside THEN FDiv(mat.refraction_index, VACUUM_REFRACTION)
    ELSE FDiv(VACUUM_REFRACTION, mat.refraction_index)

\* refraction_ratio * sin_theta > 1.0
CannotRefract(refraction_ratio, sin_theta) == FGt(FMul(refraction_ratio, sin_theta), Scale)

ScatterDialectric(mat, s, input_ray, reflection_point, reflection_normal, ray_is_inside) ==
    Let(RefractionRatio(mat, ray_is_inside), LAMBDA refraction_ratio :
    IF to_unit_vec_panics(input_ray.direction) THEN Panic(s, "to_unit_vec")
    ELSE
    Let(to_unit_vec(input_ray.direction), LAMBDA unit_direction :
    Let(FMin(FNeg(dot(unit_direction, reflection_normal)), Scale), LAMBDA cos_theta :
    Let(FSqrt(FSub(Scale, FMul(cos_theta, cos_theta))), LAMBDA sin_theta :
    Let(CannotRefract(refraction_ratio, sin_theta), LAMBDA cannot_refract :
    IF reflectance_panics(refraction_ratio) THEN Panic(s, "reflectance")
    ELSE
    Let(reflectance(cos_theta, refraction_ratio), LAMBDA reflection_coefficient :
    \* || evaluates rand_f64 only when cannot_refract is false
    Let(rand_f64(s, 0, Scale), LAMBDA draw :
    Let(cannot_refract \/ FGt(reflection_coefficient, draw.value), LAMBDA should_reflect :
        Scattered(IF cannot_refract THEN s ELSE draw.state,
                  Ray(reflection_point,
                      IF should_reflect THEN reflect(unit_direction, reflection_normal)
                      ELSE refract(unit_direction, reflection_normal, refraction_ratio)),
                  Vec3(Scale, Scale, Scale))))))))))

\* Material::scatter, entered with the generator in state s
scatter(mat, s, input_ray, reflection_point, reflection_normal, ray_is_inside) ==
    CASE mat.kind = "Lambertian" ->
            ScatterLambertian(mat, s, input_ray, reflection_point, reflection_normal)
      [] mat.kind = "Metal" ->
            ScatterMetal(mat, s, input_ray, reflection_point, reflection_normal)
      [] mat.kind = "Dialectric" ->
            ScatterDialectric(mat, s, input_ray, reflection_point, reflection_normal,
                              ray_is_inside)

----------------------------------------------------------------------------
(* lib.rs *)

\* the lower end of the search window in get_closest_collision
T_MIN == Scale \div 1000

\* let mut closest = f64::MAX; let mut closest_collision = None
ScanStart == [closest |-> F64_MAX, closest_collision |-> NoCollision]

\* every shape searched up to f64::MAX instead of up to the closest hit so far
ScanStepUnbounded(prev, hit_able, r) ==
    Let(collide(hit_able, r, T_MIN, F64_MAX), LAMBDA collision :
        IF collision.tag = "Some"
        THEN [closest |-> collision.t, closest_collision |-> collision]
        ELSE prev)

\* one iteration of the loop of get_closest_collision, entered with the locals prev
ScanStep(prev, hit_able, r) ==
    Let(collide(hit_able, r, T_MIN, prev.closest), LAMBDA collision :
        IF collision.tag = "Some"
        THEN [closest |-> collision.t, closest_collision |-> collision]
        ELSE prev)

\* get_closest_collision: closest and closest_collision after the first k shapes
RECURSIVE ClosestScan(_, _, _)
ClosestScan(r, hit_ables, k) ==
    IF k = 0 THEN ScanStart
    ELSE ScanStep(ClosestScan(r, hit_ables, k - 1), hit_ables[k], r)

get_closest_collision(r, hit_ables) ==
    ClosestScan(r, hit_ables, Len(hit_ables)).closest_collision

BLACK == Vec3(0, 0, 0)
WHITE == Vec3(Scale, Scale, Scale)
SKY_BLUE == Vec3(Scale \div 2, (7 * Scale) \div 10, Scale)

\* the gradient with the two end colours exchanged
BackgroundSwapped(r) ==
    Let(to_unit_vec(r.direction), LAMBDA unit_direction :
    Let(FClamp(FMul(Scale \div 2, FAdd(unit_direction[2], Scale)), 0, Scale), LAMBDA t :
        VAdd(VScale(SKY_BLUE, FSub(Scale, t)), VScale(WHITE, t))))

\* the gradient get_ray_color returns for a ray that hits nothing
Background(r) ==
    Let(to_unit_vec(r.direction), LAMBDA unit_direction :
    Let(FClamp(FMul(Scale \div 2, FAdd(unit_direction[2], Scale)), 0, Scale), LAMBDA t :
        VAdd(VScale(WHITE, FSub(Scale, t)), VScale(SKY_BLUE, t))))

\* a dot product in place of the component-wise product
AttenuateByDot(scattered_color, inner) ==
    Vec3(dot(scattered_color, inner), dot(scattered_color, inner),
         dot(scattered_color, inner))

\* scattered_color * get_ray_color(...)
Attenuate(scattered_color, inner) == VMul(scattered_color, inner)

\* the scatter call of get_ray_color, for the closest collision
ScatterAt(collision, s, r) ==
    scatter(collision.material, s, r, collision.pos, collision.normal,
            collision.ray_is_inside)

----------------------------------------------------------------------------
(* The inputs get_ray_color is run on *)

MaxDepth == 3
MaxWarmup == 3

\* a point or direction with whole-number coordinates
P(x, y, z) == Vec3(x * Scale, y * Scale, z * Scale)

GREY == Vec3(Scale \div 2, Scale \div 2, Scale \div 2)
GOLD == Vec3((8 * Scale) \div 10, (6 * Scale) \div 10, (2 * Scale) \div 10)
WINDOW_GLASS_REFRACTION == (152 * Scale) \div 100

\* the generator after k draws from state s
RECURSIVE RngAfter(_, _)
RngAfter(s, k) == IF k = 0 THEN s ELSE RngAfter(RngStep(s), k - 1)

Seeds == {RngAfter(RNG_SEED, k) : k \in 0..MaxWarmup}

Scenes ==
    { <<>>,
      \* one diffuse ball in front of the origin
      <<Sphere(P(0, 0, -2), Scale, Lambertian(GREY))>>,
      \* a diffuse ball and a diffuse ball above it
      <<Sphere(P(0, 0, -2), Scale, Lambertian(GREY)),
        Sphere(P(1, 1, 2), 2 * Scale, Lambertian(GREY))>>,
      \* the origin enclosed in a diffuse shell
      <<Sphere(P(0, 0, 0), 3 * Scale, Lambertian(GREY))>>,
      \* a polished and a rough metal ball
      <<Sphere(P(0, 0, -2), Scale, Metal(GOLD, 0)),
        Sphere(P(0, 3, 0), Scale, Metal(GOLD, 2 * Scale))>>,
      \* a polished metal ball the ray along -z grazes
      <<Sphere(P(0, 1, -2), Scale, Metal(GOLD, 0))>>,
      \* a glass ball with a hollow core (negative radius)
      <<Sphere(P(0, 0, -2), Scale, Dialectric(WINDOW_GLASS_REFRACTION)),
        Sphere(P(0, 0, -2), -(Scale \div 2), Dialectric(WINDOW_GLASS_REFRACTION))>>,
      \* a medium whose refraction ratio trips reflectance's assertion
      <<Sphere(P(0, 0, -2), Scale, Dialectric(-Scale))>> }

Rays ==
    { Ray(P(0, 0, 0), P(0, 0, -1)),
      Ray(P(0, 0, 0), P(0, 1, 0)),
      Ray(P(0, 0, 0), P(0, 2, -1)),
      Ray(P(0, 0, 1), P(0, 0, -2)),
      Ray(P(0, 0, 0), P(0, 0, 0)) }

----------------------------------------------------------------------------
(* get_ray_color as a machine: one action per way through one invocation,   *)
(* and one for the multiplication a suspended invocation does on return     *)

LogInit == [entered |-> 0, queries |-> 0, scatters |-> 0, atts |-> <<>>, end |-> "none"]

Init ==
    /\ RNG_STATE \in Seeds
    /\ world \in Scenes
    /\ ray \in Rays
    /\ depth \in 0..MaxDepth
    /\ pc = "call"
    /\ call = [op |-> "get_ray_color", ray |-> ray, max_depth |-> depth, rng |-> RNG_STATE]
    /\ out = <<>>
    /\ stack = <<>>
    /\ local = <<>>
    /\ log = LogInit

\* the log after an invocation that went as far as `queries` collide calls
Logged(queries, scatters, end) ==
    [log EXCEPT !.entered = @ + 1, !.queries = @ + queries,
                !.scatters = @ + scatters, !.end = end]

\* the depth test made only after the shapes were searched
DepthTestedLate ==
    /\ pc = "call"
    /\ depth = 0
    /\ out' = BLACK
    /\ pc' = "ret"
    /\ log' = Logged(Len(world), 0, "depth")
    /\ UNCHANGED <<RNG_STATE, call, ray, world, depth, stack, local>>

\* if max_depth == 0 { return vec3!(); }
DepthExhausted ==
    /\ pc = "call"
    /\ depth = 0
    /\ out' = BLACK
    /\ pc' = "ret"
    /\ log' = Logged(0, 0, "depth")
    /\ UNCHANGED <<RNG_STATE, call, ray, world, depth, stack, local>>

\* the closest collision of the current ray and what its material's scatter returns
Scatterings ==
    {[collision |-> c, res |-> ScatterAt(c, RNG_STATE, ray)] :
        c \in {x \in {get_closest_collision(ray, world)} : x.tag = "Some"}}

\* the recursive call made with max_depth instead of max_depth - 1
BounceSameDepth ==
    /\ pc = "call"
    /\ depth # 0
    /\ \E sc \in Scatterings :
          /\ sc.res.tag = "Some"
          /\ RNG_STATE' = sc.res.state
          /\ stack' = Append(stack, sc.res.color)
          /\ ray' = sc.res.ray
          /\ depth' = depth
          /\ log' = [Logged(Len(world), 1, "none")
                        EXCEPT !.atts = Append(@, sc.res.color)]
    /\ UNCHANGED <<pc, call, out, world, local>>

\* a collision whose material scatters: the invocation suspends on the recursive call
Bounce ==
    /\ pc = "call"
    /\ depth # 0
    /\ \E sc \in Scatterings :
          /\ sc.res.tag = "Some"
          /\ RNG_STATE' = sc.res.state
          /\ stack' = Append(stack, sc.res.color)
          /\ ray' = sc.res.ray
          /\ depth' = depth - 1
          /\ log' = [Logged(Len(world), 1, "none")
                        EXCEPT !.atts = Append(@, sc.res.color)]
    /\ UNCHANGED <<pc, call, out, world, local>>

\* a collision whose material returns nothing: return vec3!(0.0, 0.0, 0.0)
Absorb ==
    /\ pc = "call"
    /\ depth # 0
    /\ \E sc \in Scatterings :
          /\ sc.res.tag = "None"
          /\ RNG_STATE' = sc.res.state
    /\ out' = BLACK
    /\ pc' = "ret"
    /\ log' = Logged(Len(world), 1, "absorbed")
    /\ UNCHANGED <<call, ray, world, depth, stack, local>>

\* a collision whose scatter call panics
ScatterPanics ==
    /\ pc = "call"
    /\ depth # 0
    /\ \E sc \in Scatterings :
          /\ sc.res.tag = "Panic"
          /\ RNG_STATE' = sc.res.state
          /\ out' = sc.res.what
    /\ pc' = "panic"
    /\ log' = Logged(Len(world), 1, "panic")
    /\ UNCHANGED <<call, ray, world, depth, stack, local>>

\* no collision: the background gradient
Miss ==
    /\ pc = "call"
    /\ depth # 0
    /\ get_closest_collision(ray, world).tag = "None"
    /\ ~to_unit_vec_panics(ray.direction)
    /\ out' = Background(ray)
    /\ pc' = "ret"
    /\ log' = Logged(Len(world), 0, "miss")
    /\ UNCHANGED <<RNG_STATE, call, ray, world, depth, stack, local>>

\* no collision, and a direction to_unit_vec refuses
MissPanics ==
    /\ pc = "call"
    /\ depth # 0
    /\ get_closest_collision(ray, world).tag = "None"
    /\ to_unit_vec_panics(ray.direction)
    /\ out' = "to_unit_vec"
    /\ pc' = "panic"
    /\ log' = Logged(Len(world), 0, "panic")
    /\ UNCHANGED <<RNG_STATE, call, ray, world, depth, stack, local>>

\* return scattered_color * get_ray_color(scattered_ray, world, max_depth - 1)
Return ==
    /\ pc = "ret"
    /\ stack # <<>>
    /\ out' = Attenuate(stack[Len(stack)], out)
    /\ stack' = SubSeq(stack, 1, Len(stack) - 1)
    /\ UNCHANGED <<RNG_STATE, pc, call, ray, world, depth, log, local>>

Next ==
    \/ DepthExhausted
    \/ Bounce
    \/ Absorb
    \/ ScatterPanics
    \/ Miss
    \/ MissPanics
    \/ Return

Spec == Init /\ [][Next]_vars

\* the outermost invocation has returned
Returned == pc = "ret" /\ stack = <<>>

\* the outermost invocation has returned or panicked
Finished == Returned \/ pc = "panic"

----------------------------------------------------------------------------
(* Claims about get_ray_color *)

\* a1 * (a2 * (... * (an * c))), component-wise
RECURSIVE Product(_, _)
Product(atts, c) ==
    IF atts = <<>> THEN c ELSE VMul(atts[1], Product(Tail(atts), c))

\* the colour of the innermost invocation, by the way the path ended
TerminalColour == IF log.end = "miss" THEN Background(ray) ELSE Vec3(0, 0, 0)

\* C1: with max_depth >= 1, what get_ray_color returns (and what every suspended
\* invocation returns on the way out) is the component-wise product of the
\* attenuations scatter returned at the successive bounces and of a terminal colour:
\* the background gradient of the last ray when it missed every shape, black when a
\* scatter returned nothing or the depth budget reached 0.
C1_ColourIsProductOfAttenuations ==
    (pc = "ret" /\ call.max_depth >= 1) =>
        /\ log.end \in {"miss", "absorbed", "depth"}
        /\ Len(log.atts) = log.scatters - (IF log.end = "absorbed" THEN 1 ELSE 0)
        /\ out = Product(SubSeq(log.atts, Len(stack) + 1, Len(log.atts)), TerminalColour)

\* two diffuse bounces of albedo (0.5, 0.5, 0.5) and a miss: a quarter of the background
C1_TwoDiffuseBouncesThenMiss ==
    /\ Returned
    /\ log.atts = <<GREY, GREY>>
    /\ log.end = "miss"
    /\ out # Vec3(0, 0, 0)
    /\ out = VScale(Background(ray), Scale \div 4)

\* C2: with max_depth = 0 get_ray_color returns exactly (0, 0, 0), whatever the ray
\* and the scene, and it has then called collide on no shape, called scatter not at
\* all and left the generator in the state it found it in.
C2_DepthZeroIsBlack ==
    (call.max_depth = 0) =>
        /\ pc # "panic"
        /\ pc = "ret" =>
              /\ out = Vec3(0, 0, 0)
              /\ log.queries = 0
              /\ log.scatters = 0
              /\ RNG_STATE = call.rng

\* a depth-0 call on a scene with shapes has returned
C2_DepthZeroReturned ==
    /\ Returned
    /\ call.max_depth = 0
    /\ world # <<>>
    /\ log.entered = 1

\* twice the invocations still to be entered, plus the returns still to be made, at most
Measure == 2 * depth + Len(stack) + (IF pc = "call" THEN 1 ELSE 0)

\* C3: get_ray_color called with max_depth = n terminates: every recursive call is
\* made with max_depth one less (on entry, the suspended invocations and the
\* invocation's max_depth add up to n), so scatter is called at most n times and at most n + 1 invocations
\* are entered; every step lowers a measure that never falls below 0, so at most
\* 2n + 1 steps are taken.
C3_DepthBoundsTheRecursion ==
    /\ [](/\ pc = "call" => Len(stack) + depth = call.max_depth
          /\ log.scatters <= call.max_depth
          /\ log.entered <= call.max_depth + 1
          /\ Len(stack) + 1 <= call.max_depth + 1)
    /\ [](Measure >= 0)
    /\ [][Measure' < Measure]_vars

\* a path that used the whole budget: n scatter calls and n + 1 invocations
C3_BudgetUsedUp ==
    /\ Returned
    /\ call.max_depth = MaxDepth
    /\ log.scatters = call.max_depth
    /\ log.entered = call.max_depth + 1
    /\ log.end = "depth"

----------------------------------------------------------------------------
(* get_closest_collision as a machine: one action per iteration of its loop *)

\* the rays the search is run on: every direction is nonzero, as the direction of
\* every ray the camera or a material produces is
SearchRays ==
    { Ray(P(0, 0, 0), P(0, 0, -1)),
      Ray(P(0, 0, 0), P(0, 1, 0)),
      Ray(P(0, 0, 0), P(0, 2, -1)),
      Ray(P(0, 0, 1), P(0, 0, -2)),
      Ray(P(0, 0, -2), P(0, 0, -1)),
      Ray(P(0, 0, -1), P(0, 0, -1)),
      Ray(P(1, 1, 2), Vec3(0, (6 * Scale) \div 10, -((8 * Scale) \div 10))) }

\* three balls on the -z axis: the first and the last are entered at the same t
ThreeBalls ==
    <<Sphere(P(0, 0, -2), Scale, Lambertian(GREY)),
      Sphere(P(0, 0, -5), Scale, Metal(GOLD, 0)),
      Sphere(P(0, 0, -3), 2 * Scale, Dialectric(WINDOW_GLASS_REFRACTION))>>

\* the same shapes in every order
Reorderings(hit_ables) ==
    {[i \in 1..Len(hit_ables) |-> hit_ables[p[i]]] : p \in Permutations(1..Len(hit_ables))}

SearchScenes == UNION {Reorderings(w) : w \in Scenes \cup {ThreeBalls}}

InitClosest ==
    /\ RNG_STATE = RNG_SEED
    /\ world \in SearchScenes
    /\ ray \in SearchRays
    /\ depth = 0
    /\ pc = "call"
    /\ call = [op |-> "get_closest_collision", ray |-> ray, hit_ables |-> world]
    /\ out = <<>>
    /\ stack = <<>>
    /\ local = <<>>
    /\ log = [bounds |-> <<>>]

\* let mut closest = f64::MAX; let mut closest_collision = None;
ClosestEnter ==
    /\ pc = "call"
    /\ call.op = "get_closest_collision"
    /\ local' = [k |-> 0, closest |-> ScanStart.closest,
                 closest_collision |-> ScanStart.closest_collision]
    /\ pc' = "loop"
    /\ UNCHANGED <<RNG_STATE, call, out, ray, world, depth, stack, log>>

\* for hit_able in hit_ables { if let Some(collision) = ... { ... } }: one iteration
ClosestVisit ==
    /\ pc = "loop"
    /\ local.k < Len(world)
    /\ \E nxt \in {ScanStep(local, world[local.k + 1], ray)} :
          local' = [k |-> local.k + 1, closest |-> nxt.closest,
                    closest_collision |-> nxt.closest_collision]
    /\ log' = [log EXCEPT !.bounds = Append(@, local.closest)]
    /\ UNCHANGED <<RNG_STATE, pc, call, out, ray, world, depth, stack>>

\* return closest_collision;
ClosestReturn ==
    /\ pc = "loop"
    /\ local.k = Len(world)
    /\ out' = local.closest_collision
    /\ pc' = "ret"
    /\ UNCHANGED <<RNG_STATE, call, ray, world, depth, stack, local, log>>

NextClosest ==
    \/ ClosestEnter
    \/ ClosestVisit
    \/ ClosestReturn

SpecClosest == InitClosest /\ [][NextClosest]_vars

----------------------------------------------------------------------------
(* Claims about get_closest_collision *)

\* what each shape of the scene reports for the whole window [0.001, f64::MAX]
FullWindowHits ==
    {c \in {collide(world[i], ray, T_MIN, F64_MAX) : i \in 1..Len(world)} : c.tag = "Some"}

----------------------------------------------------------------------------
(* Sphere::collide called on its own *)

\* a number given in thousandths
Milli(n) == (n * Scale) \div 1000

CollideSpheres ==
    { Sphere(P(0, 0, -2), Scale, Dialectric(Scale)),
      Sphere(P(0, 0, -2), -Scale, Dialectric(Scale)),
      Sphere(P(0, 0, -2), -Milli(500), Dialectric(Scale)),
      Sphere(P(0, 1, -2), Scale, Metal(GOLD, 0)),
      Sphere(P(0, 1, -2), -Scale, Metal(GOLD, 0)),
      Sphere(P(0, 0, 0), 3 * Scale, Lambertian(GREY)) }

\* every direction is nonzero; the last ray has a unit direction and is aimed at
\* (0, 0, -2) from a distance of 5
CollideRays ==
    { Ray(P(0, 0, 0), P(0, 0, -1)),
      Ray(Vec3(0, 0, -Milli(1500)), P(0, 0, -1)),
      Ray(P(0, 0, -1), P(0, 0, -1)),
      Ray(P(0, 0, 0), P(0, 0, -2)),
      Ray(P(0, 0, 0), P(0, 1, 0)),
      Ray(P(0, 0, -4), P(0, 0, 1)),
      Ray(P(0, -3, 2), Vec3(0, Milli(600), -Milli(800))) }

\* [t_min, t_max]
CollideWindows ==
    { <<0, 10 * Scale>>,
      <<Milli(10), 10 * Scale>>,
      <<T_MIN, F64_MAX>>,
      <<Scale, 10 * Scale>>,
      <<0, Scale>>,
      <<Milli(1001), 3 * Scale>>,
      <<3 * Scale, 10 * Scale>>,
      <<Milli(1001), Milli(2999)>>,
      <<Milli(4001), 6 * Scale>>,
      <<-(10 * Scale), -Scale>> }

InitCollide ==
    /\ RNG_STATE = RNG_SEED
    /\ world = <<>>
    /\ ray \in CollideRays
    /\ depth = 0
    /\ pc = "call"
    /\ \E sphere \in CollideSpheres, w \in CollideWindows :
          call = [op |-> "collide", sphere |-> sphere, ray |-> ray,
                  t_min |-> w[1], t_max |-> w[2]]
    /\ out = <<>>
    /\ stack = <<>>
    /\ local = <<>>
    /\ log = <<>>

\* sphere.collide(&ray, t_min, t_max)
CallCollide ==
    /\ pc = "call"
    /\ call.op = "collide"
    /\ out' = collide(call.sphere, call.ray, call.t_min, call.t_max)
    /\ pc' = "ret"
    /\ UNCHANGED <<RNG_STATE, call, ray, world, depth, stack, local, log>>

NextCollide == CallCollide

SpecCollide == InitCollide /\ [][NextCollide]_vars

----------------------------------------------------------------------------
(* Claims about Sphere::collide *)

\* t_min <= x <= t_max
InWindow(x, t_min, t_max) == FLe(t_min, x) /\ FLe(x, t_max)

CentreDistance == norm(VSub(call.sphere.center, call.ray.origin))

\* the ray has a unit direction and points from its origin at the sphere's centre
AimedAtCentre ==
    /\ FEq(norm(call.ray.direction), Scale)
    /\ VEq(VScale(call.ray.direction, CentreDistance),
           VSub(call.sphere.center, call.ray.origin))

OutwardNormal == VScale(VSub(out.pos, call.sphere.center), FDiv(Scale, call.sphere.radius))

----------------------------------------------------------------------------
(* Material::scatter called on its own *)

ScatterMaterials ==
    { Lambertian(GREY),
      Metal(GOLD, 0),
      Metal(GOLD, Milli(500)),
      Metal(GOLD, 2 * Scale),
      Metal(GOLD, -Milli(500)),
      Dialectric(WINDOW_GLASS_REFRACTION),
      Dialectric(Scale),
      Dialectric(0),
      Dialectric(-(2 * Scale)),
      Dialectric(-Scale) }

\* incoming directions: along -z with and without unit length, two oblique ones
\* (the second beyond the critical angle of window glass), and zero
ScatterDirections ==
    { P(0, 0, -1),
      P(0, 0, -2),
      Vec3(0, Milli(600), -Milli(800)),
      Vec3(0, Milli(800), -Milli(600)),
      P(0, 0, 0) }

\* hit normals: against the -z direction, along it, at right angles to it, and
\* oblique to it
ScatterNormals ==
    { P(0, 0, 1), P(0, 0, -1), P(0, 1, 0), Vec3(0, Milli(600), Milli(800)) }

InitScatter ==
    /\ RNG_STATE \in Seeds
    /\ world = <<>>
    /\ \E direction \in ScatterDirections : ray = Ray(P(0, 0, 0), direction)
    /\ depth = 0
    /\ pc = "call"
    /\ \E mat \in ScatterMaterials, normal \in ScatterNormals, inside \in BOOLEAN :
          call = [op |-> "scatter", material |-> mat, input_ray |-> ray,
                  reflection_point |-> P(0, 0, -1), reflection_normal |-> normal,
                  ray_is_inside |-> inside, rng |-> RNG_STATE]
    /\ out = <<>>
    /\ stack = <<>>
    /\ local = <<>>
    /\ log = <<>>

\* what the call in progress does when the generator is in state RNG_STATE
ScatterResult ==
    scatter(call.material, RNG_STATE, call.input_ray, call.reflection_point,
            call.reflection_normal, call.ray_is_inside)

\* material.scatter(...) returns Some((ray, color)) or None
CallScatter ==
    /\ pc = "call"
    /\ call.op = "scatter"
    /\ \E res \in {ScatterResult} :
          /\ res.tag # "Panic"
          /\ out' = [x \in DOMAIN res \ {"state"} |-> res[x]]
          /\ RNG_STATE' = res.state
    /\ pc' = "ret"
    /\ UNCHANGED <<call, ray, world, depth, stack, local, log>>

\* material.scatter(...) fails an assertion
CallScatterPanics ==
    /\ pc = "call"
    /\ call.op = "scatter"
    /\ \E res \in {ScatterResult} :
          /\ res.tag = "Panic"
          /\ out' = res.what
          /\ RNG_STATE' = res.state
    /\ pc' = "panic"
    /\ UNCHANGED <<call, ray, world, depth, stack, local, log>>

NextScatter ==
    \/ CallScatter
    \/ CallScatterPanics

SpecScatter == InitScatter /\ [][NextScatter]_vars

----------------------------------------------------------------------------
(* Claims about Material::scatter *)

\* Metal: the perturbed reflected direction of the call, the random unit vector
\* being the one drawn from the generator state the call found
PerturbedReflection ==
    MetalDirection(call.material, rand_unit_vec(call.rng).value, call.input_ray,
                   call.reflection_normal)

\* C8: a scatter call that returns, returns nothing only for Metal, and for Metal
\* exactly when the perturbed reflected direction has a dot product <= 0 with the hit
\* normal; Lambertian returns a ray with its albedo as attenuation, Dialectric a ray
\* with attenuation (1, 1, 1); every ray returned starts at the hit position.
C8_OnlyMetalAbsorbs ==
    (pc = "ret" /\ call.op = "scatter") =>
        /\ out.tag = "None" => call.material.kind = "Metal"
        /\ call.material.kind = "Metal" =>
              /\ out.tag = "None" <=> FLe(dot(PerturbedReflection, call.reflection_normal), 0)
              /\ out.tag = "Some" =>
                    (out.color = call.material.albedo /\ out.ray.direction = PerturbedReflection)
        /\ call.material.kind = "Lambertian" =>
              (out.tag = "Some" /\ out.color = call.material.albedo)
        /\ call.material.kind = "Dialectric" =>
              (out.tag = "Some" /\ out.color = Vec3(Scale, Scale, Scale))
        /\ out.tag = "Some" => out.ray.origin = call.reflection_point

\* a rough metal hit from behind the normal: the perturbed reflection points into
\* the surface and nothing is returned
C8_RoughMetalAbsorbs ==
    /\ pc = "ret"
    /\ call.op = "scatter"
    /\ call.material.kind = "Metal"
    /\ call.material.fuzzyness > Scale
    /\ FLt(dot(PerturbedReflection, call.reflection_normal), 0)
    /\ PerturbedReflection # reflect(to_unit_vec(call.input_ray.direction),
                                     call.reflection_normal)
    /\ out.tag = "None"

\* the refraction ratio the Dialectric branch of the call computes
CallRefractionRatio == RefractionRatio(call.material, call.ray_is_inside)

\* C9 as claimed: with a nonzero incoming direction scatter never fails, whatever
\* the material and its parameters; a failure is the normalisation of a zero vector.
C9_ScatterNeverFails ==
    (call.op = "scatter" /\ pc = "panic") =>
        (VEq(call.input_ray.direction, ZERO) /\ out = "to_unit_vec")

\* C9, amended: scatter fails in two cases only.  Metal and Dialectric fail in
\* to_unit_vec when the norm of the incoming direction is zero; Dialectric fails in
\* reflectance's assert_ne! when its refraction ratio (refraction_index / 1.0 inside,
\* 1.0 / refraction_index outside) equals -1.0.  In every other case (any fuzzyness,
\* any other refraction_index, 0 and negative ones included, either ray_is_inside,
\* any normal) scatter returns, and Lambertian returns in every case.
C9_ScatterFailsOnlyOnAssertions ==
    (call.op = "scatter" /\ pc # "call") =>
        /\ pc = "panic" <=>
              /\ call.material.kind \in {"Metal", "Dialectric"}
              /\ \/ FEq(norm(call.input_ray.direction), 0)
                 \/ call.material.kind = "Dialectric" /\ FEq(CallRefractionRatio, -Scale)
        /\ pc = "panic" =>
              out = IF FEq(norm(call.input_ray.direction), 0)
                    THEN "to_unit_vec" ELSE "reflectance"

\* a Dialectric of refraction index 0 hit from outside: the ratio is infinite, and
\* scatter returns a ray all the same
C9_ZeroIndexReturns ==
    /\ pc = "ret"
    /\ call.op = "scatter"
    /\ call.material = Dialectric(0)
    /\ ~call.ray_is_inside
    /\ CallRefractionRatio = PInf
    /\ out.tag = "Some"

----------------------------------------------------------------------------
(* rand_f64 and rand_vec called on their own *)

\* (t_min, t_max) with t_min <= t_max
RandRanges ==
    { <<0, Scale>>,
      <<Milli(500), Scale>>,
      <<-(10 * Scale), 10 * Scale>>,
      <<-Scale, Scale>>,
      <<2 * Scale, 3 * Scale>>,
      <<-(3 * Scale), -(2 * Scale)>>,
      <<Scale, Scale>>,
      <<0, 0>> }

InitRng ==
    /\ RNG_STATE \in Seeds
    /\ world = <<>>
    /\ ray = <<>>
    /\ depth = 0
    /\ pc = "call"
    /\ \E op \in {"rand_f64", "rand_vec"}, range \in RandRanges :
          call = [op |-> op, t_min |-> range[1], t_max |-> range[2], rng |-> RNG_STATE]
    /\ out = <<>>
    /\ stack = <<>>
    /\ local = <<>>
    /\ log = <<>>

\* rand_f64(t_min, t_max)
CallRandF64 ==
    /\ pc = "call"
    /\ call.op = "rand_f64"
    /\ ~rand_f64_panics(call.t_min, call.t_max)
    /\ \E res \in {rand_f64(RNG_STATE, call.t_min, call.t_max)} :
          /\ out' = res.value
          /\ RNG_STATE' = res.state
    /\ pc' = "ret"
    /\ UNCHANGED <<call, ray, world, depth, stack, local, log>>

\* rand_vec(min_val, max_val)
CallRandVec ==
    /\ pc = "call"
    /\ call.op = "rand_vec"
    /\ ~rand_f64_panics(call.t_min, call.t_max)
    /\ \E res \in {rand_vec(RNG_STATE, call.t_min, call.t_max)} :
          /\ out' = res.value
          /\ RNG_STATE' = res.state
    /\ pc' = "ret"
    /\ UNCHANGED <<call, ray, world, depth, stack, local, log>>

NextRng ==
    \/ CallRandF64
    \/ CallRandVec

SpecRng == InitRng /\ [][NextRng]_vars

----------------------------------------------------------------------------
(* Claims about rand_f64 and rand_vec *)

\* C10: for t_min <= t_max the value rand_f64(t_min, t_max) returns lies in
\* [t_min, t_max], and so does each of the three components of the vector
\* rand_vec(t_min, t_max) returns.
C10_ValueWithinRange ==
    (pc = "ret" /\ call.op \in {"rand_f64", "rand_vec"}) =>
        /\ call.op = "rand_f64" => InWindow(out, call.t_min, call.t_max)
        /\ call.op = "rand_vec" =>
              \A i \in 1..3 : InWindow(out[i], call.t_min, call.t_max)

----------------------------------------------------------------------------
(* camera.rs *)

Camera(origin, lower_left_corner, horizontal, vertical, u, v, w, lens_radius) ==
    [origin |-> origin, lower_left_corner |-> lower_left_corner,
     horizontal |-> horizontal, vertical |-> vertical,
     u |-> u, v |-> v, w |-> w, lens_radius |-> lens_radius]

\* lower_left_corner + x * horizontal + y * vertical
FocusPoint(camera, x, y) ==
    VAdd(VAdd(camera.lower_left_corner, VScale(camera.horizontal, x)),
         VScale(camera.vertical, y))

\* the ray aimed from the lens centre, whatever the offset of its origin
RayFromLensCentre(camera, offset, x, y) ==
    Ray(VAdd(camera.origin, offset), VSub(FocusPoint(camera, x, y), camera.origin))

\* Ray { origin: self.origin + offset, direction: ... - (self.origin + offset) }
RayFromLens(camera, offset, x, y) ==
    Ray(VAdd(camera.origin, offset),
        VSub(FocusPoint(camera, x, y), VAdd(camera.origin, offset)))

\* Camera::send_ray_towards, entered with the generator in state s: the two draws
\* are made in the order x, y
send_ray_towards(camera, s, x, y) ==
    Let(rand_f64(s, -Scale, Scale), LAMBDA rx :
    Let(rand_f64(rx.state, -Scale, Scale), LAMBDA ry :
    Let(Vec3(rx.value, ry.value, 0), LAMBDA random_xy :
    Let(VScale(to_unit_vec(random_xy), camera.lens_radius), LAMBDA random_direction :
    Let(VAdd(VScale(camera.u, random_direction[1]),
             VScale(camera.v, random_direction[2])), LAMBDA offset :
        [state |-> ry.state,
         panics |-> to_unit_vec_panics(random_xy),
         ray |-> RayFromLens(camera, offset, x, y)])))))

----------------------------------------------------------------------------
(* Camera::send_ray_towards called on its own *)

\* a camera at the origin looking along -z, and one at (0, 0, 1) looking along +x;
\* the viewport is 4 by 2 at focus distance 1
CameraLookingDown(lens_radius) ==
    Camera(P(0, 0, 0), P(-2, -1, -1), P(4, 0, 0), P(0, 2, 0),
           P(1, 0, 0), P(0, 1, 0), P(0, 0, 1), lens_radius)

CameraLookingSideways(lens_radius) ==
    Camera(P(0, 0, 1), P(1, -1, -1), P(0, 0, 4), P(0, 2, 0),
           P(0, 0, 1), P(0, 1, 0), P(-1, 0, 0), lens_radius)

\* aperture / 2.0 for the apertures 0, 0.5 and 2
LensRadii == {0, Milli(250), Scale}

Cameras ==
    {CameraLookingDown(r) : r \in LensRadii} \cup {CameraLookingSideways(r) : r \in LensRadii}

\* normalised image coordinates
ImageCoordinates == {0, Milli(500), Scale}

InitCamera ==
    /\ RNG_STATE \in Seeds
    /\ world = <<>>
    /\ ray = <<>>
    /\ depth = 0
    /\ pc = "call"
    /\ \E camera \in Cameras, x \in ImageCoordinates, y \in ImageCoordinates :
          call = [op |-> "send_ray_towards", camera |-> camera, x |-> x, y |-> y,
                  rng |-> RNG_STATE]
    /\ out = <<>>
    /\ stack = <<>>
    /\ local = <<>>
    /\ log = <<>>

\* camera.send_ray_towards(x, y)
CallSendRay ==
    /\ pc = "call"
    /\ call.op = "send_ray_towards"
    /\ \E res \in {send_ray_towards(call.camera, RNG_STATE, call.x, call.y)} :
          /\ ~res.panics
          /\ out' = res.ray
          /\ RNG_STATE' = res.state
    /\ pc' = "ret"
    /\ UNCHANGED <<call, ray, world, depth, stack, local, log>>

NextCamera == CallSendRay

SpecCamera == InitCamera /\ [][NextCamera]_vars

----------------------------------------------------------------------------
(* Claims about Camera::send_ray_towards *)

\* the rounding allowed on a length: two units of the resolution
Tolerance == 2 * F64_EPSILON

\* the displacement of the returned origin from the camera's origin
LensOffset == VSub(out.origin, call.camera.origin)

\* C11: the ray send_ray_towards returns starts at camera.origin + u*ox + v*oy for
\* a lens offset (ox, oy) whose length is at most lens_radius (up to rounding), and
\* its origin + direction is lower_left_corner + x*horizontal + y*vertical, the same
\* focus-plane point whatever offset was drawn; with lens_radius 0 the origin is
\* exactly camera.origin.
C11_RayThroughFocusPoint ==
    (pc = "ret" /\ call.op = "send_ray_towards") =>
        /\ \E ox \in {dot(LensOffset, call.camera.u)}, oy \in {dot(LensOffset, call.camera.v)} :
              /\ out.origin = VAdd(call.camera.origin,
                                   VAdd(VScale(call.camera.u, ox), VScale(call.camera.v, oy)))
              /\ FLe(norm(Vec3(ox, oy, 0)), call.camera.lens_radius + Tolerance)
        /\ VAdd(out.origin, out.direction) = FocusPoint(call.camera, call.x, call.y)
        /\ call.camera.lens_radius = 0 => out.origin = call.camera.origin

\* a ray that starts off the lens centre and still passes through the focus point
C11_OffCentreRay ==
    /\ pc = "ret"
    /\ call.op = "send_ray_towards"
    /\ call.camera.lens_radius = Scale
    /\ out.origin # call.camera.origin
    /\ FGe(norm(LensOffset), call.camera.lens_radius - Tolerance)
    /\ VAdd(out.origin, out.direction) = FocusPoint(call.camera, call.x, call.y)
    /\ RNG_STATE = RngAfter(call.rng, 2)

----------------------------------------------------------------------------
(* Claims about the Dialectric branch of Material::scatter *)

\* refraction_index / 1.0 inside, 1.0 / refraction_index outside
ClaimedRatio ==
    IF call.ray_is_inside THEN FDiv(call.material.refraction_index, Scale)
    ELSE FDiv(Scale, call.material.refraction_index)

\* the unit incoming direction, and the cosine and sine of the angle of incidence
UnitIncoming == to_unit_vec(call.input_ray.direction)
CosTheta == FMin(FNeg(dot(UnitIncoming, call.reflection_normal)), Scale)
SinTheta == FSqrt(FSub(Scale, FMul(CosTheta, CosTheta)))

\* the mirror reflection and the refraction of the unit incoming direction
Mirrored == reflect(UnitIncoming, call.reflection_normal)
Refracted == refract(UnitIncoming, call.reflection_normal, ClaimedRatio)

\* the uniform draw the call makes, or would make, from the state it found
UniformDraw == rand_f64(call.rng, 0, Scale).value

----------------------------------------------------------------------------
(* reflect called on its own *)

\* vectors of length exactly 1 at the resolution: an axis, and Pythagorean triples
\* over 5, 25 and 125
UnitShapes ==
    { P(0, 0, 1),
      Vec3(Milli(600), Milli(800), 0),
      Vec3(Milli(280), Milli(960), 0),
      Vec3(Milli(352), Milli(936), 0),
      Vec3(Milli(360), Milli(480), Milli(800)) }

\* every rearrangement of the coordinates of w, with both signs of the first one
Rearranged(w) ==
    UNION {{Vec3(w[p[1]], w[p[2]], w[p[3]]), Vec3(-w[p[1]], w[p[2]], w[p[3]])} :
              p \in Permutations(1..3)}

UnitVectors == UNION {Rearranged(w) : w \in UnitShapes}

InitReflect ==
    /\ RNG_STATE = RNG_SEED
    /\ world = <<>>
    /\ ray = <<>>
    /\ depth = 0
    /\ pc = "call"
    /\ \E v \in UnitVectors, normal \in UnitVectors :
          call = [op |-> "reflect", v |-> v, normal |-> normal]
    /\ out = <<>>
    /\ stack = <<>>
    /\ local = <<>>
    /\ log = <<>>

\* reflect(&v, &normal)
CallReflect ==
    /\ pc = "call"
    /\ call.op = "reflect"
    /\ out' = reflect(call.v, call.normal)
    /\ pc' = "ret"
    /\ UNCHANGED <<RNG_STATE, call, ray, world, depth, stack, local, log>>

NextReflect == CallReflect

SpecReflect == InitReflect /\ [][NextReflect]_vars

----------------------------------------------------------------------------
(* Claims about reflect *)

\* C13: for a unit vector v and a unit normal n, reflect(v, n) has the norm of v, up
\* to the rounding of the products.
C13_ReflectKeepsNorm ==
    (pc = "ret" /\ call.op = "reflect") =>
        /\ FEq(norm(call.v), Scale)
        /\ FEq(norm(call.normal), Scale)
        /\ FLe(FAbs(FSub(norm(out), norm(call.v))), Tolerance)

\* an oblique reflection: the result is neither v nor -v
C13_ObliqueReflection ==
    /\ pc = "ret"
    /\ call.op = "reflect"
    /\ FLt(dot(call.v, call.normal), 0)
    /\ FGt(dot(call.v, call.normal), -Scale)
    /\ out # call.v
    /\ out # VNeg(call.v)
    /\ FGt(dot(out, call.normal), 0)
    /\ FLe(FAbs(FSub(norm(out), Scale)), Tolerance)

----------------------------------------------------------------------------
(* Claims about the background of get_ray_color *)

\* no shape of the scene is hit by r at t >= 0.001
NothingHit(r, hit_ables) ==
    \A i \in 1..Len(hit_ables) : collide(hit_ables[i], r, T_MIN, F64_MAX).tag = "None"

\* t = clamp(0.5 * (unit_direction.y + 1), 0, 1)
GradientParameter(direction) ==
    FClamp(FMul(Scale \div 2, FAdd(to_unit_vec(direction)[2], Scale)), 0, Scale)

\* (1 - t) * (1, 1, 1) + t * (0.5, 0.7, 1.0)
ClaimedGradient(t) ==
    VAdd(VScale(Vec3(Scale, Scale, Scale), FSub(Scale, t)),
         VScale(Vec3(Milli(500), Milli(700), Scale), t))

StraightUp(direction) == direction[1] = 0 /\ direction[3] = 0 /\ FGt(direction[2], 0)

\* C14: an invocation with max_depth >= 1 whose ray has a direction of nonzero length
\* and hits no shape at t >= 0.001 returns (1-t)*(1,1,1) + t*(0.5,0.7,1.0) with
\* t = clamp(0.5*(unit_direction.y + 1), 0, 1), calls scatter not once and leaves the
\* generator where it was; for a ray straight up that is exactly (0.5, 0.7, 1.0).
C14_MissGivesTheGradient ==
    [][(/\ pc = "call"
        /\ depth >= 1
        /\ ~FEq(norm(ray.direction), 0)
        /\ NothingHit(ray, world))
       => /\ pc' = "ret"
          /\ out' = ClaimedGradient(GradientParameter(ray.direction))
          /\ RNG_STATE' = RNG_STATE
          /\ log'.scatters = log.scatters
          /\ StraightUp(ray.direction) => out' = Vec3(Milli(500), Milli(700), Scale)]_vars

\* a ray straight up that passes a ball and comes back sky blue
C14_SkyAboveTheBall ==
    /\ Returned
    /\ call.max_depth >= 1
    /\ world # <<>>
    /\ StraightUp(call.ray.direction)
    /\ NothingHit(call.ray, world)
    /\ log.end = "miss"
    /\ log.scatters = 0
    /\ RNG_STATE = call.rng
    /\ out = Vec3(Milli(500), Milli(700), Scale)

----------------------------------------------------------------------------
(* get_ray_color as a function of the generator state it is entered with, *)
(* and the render loop of main                                             *)

RECURSIVE get_ray_color(_, _, _, _)
get_ray_color(s, r, hit_ables, max_depth) ==
    IF max_depth = 0 THEN [tag |-> "Some", state |-> s, color |-> BLACK]
    ELSE
    Let(get_closest_collision(r, hit_ables), LAMBDA collision :
        IF collision.tag = "Some"
        THEN Let(ScatterAt(collision, s, r), LAMBDA res :
                 CASE res.tag = "Some" ->
                        Let(get_ray_color(res.state, res.ray, hit_ables, max_depth - 1),
                            LAMBDA inner :
                            IF inner.tag = "Panic" THEN inner
                            ELSE [tag |-> "Some", state |-> inner.state,
                                  color |-> Attenuate(res.color, inner.color)])
                   [] res.tag = "None" ->
                        [tag |-> "Some", state |-> res.state, color |-> BLACK]
                   [] res.tag = "Panic" ->
                        [tag |-> "Panic", state |-> res.state, color |-> BLACK])
        ELSE IF to_unit_vec_panics(r.direction)
             THEN [tag |-> "Panic", state |-> s, color |-> BLACK]
             ELSE [tag |-> "Some", state |-> s, color |-> Background(r)])

\* camera.send_ray_towards(u, v) followed by get_ray_color(ray, &world, max_depth),
\* entered with the generator in state s
SampleColour(camera, hit_ables, u, v, max_depth, s) ==
    Let(send_ray_towards(camera, s, u, v), LAMBDA sent :
        IF sent.panics THEN [tag |-> "Panic", state |-> sent.state, color |-> BLACK]
        ELSE get_ray_color(sent.state, sent.ray, hit_ables, max_depth))

ImageWidth == 2
ImageHeight == 2
SamplesPerPixel == 2

\* the ground of main's scene, alone, under a rough metal ball and under a glass ball
RenderScenes ==
    { <<Sphere(P(0, -6, -2), 5 * Scale, Lambertian(GREY))>>,
      <<Sphere(P(0, -6, -2), 5 * Scale, Lambertian(GREY)),
        Sphere(P(0, 0, -2), Scale, Metal(GOLD, Milli(500)))>>,
      <<Sphere(P(0, -6, -2), 5 * Scale, Lambertian(GREY)),
        Sphere(P(0, 0, -2), Scale, Dialectric(WINDOW_GLASS_REFRACTION))>> }

RenderCameras == {CameraLookingDown(0), CameraLookingDown(Milli(250))}

InitRender ==
    /\ RNG_STATE = RNG_SEED
    /\ world \in RenderScenes
    /\ ray = <<>>
    /\ depth \in 1..MaxDepth
    /\ pc = "loop"
    /\ \E camera \in RenderCameras :
          call = [op |-> "render", camera |-> camera, max_depth |-> depth,
                  image_width |-> ImageWidth, image_height |-> ImageHeight,
                  samples_per_pixel |-> SamplesPerPixel]
    /\ out = <<>>
    /\ stack = <<>>
    /\ local = [i |-> ImageHeight - 1, j |-> 0, sample |-> 0, pixel_color |-> BLACK]
    /\ log = <<>>

\* one pass through the body of the innermost loop: the two draws for u and v, the
\* ray, its colour, and the sum
RenderSample ==
    /\ pc = "loop"
    /\ local.sample < call.samples_per_pixel
    /\ \E ju \in {rand_f64(RNG_STATE, 0, Milli(999))} :
       \E jv \in {rand_f64(ju.state, 0, Milli(999))} :
       \E u \in {FDiv(FAdd(local.j * Scale, ju.value), (call.image_width - 1) * Scale)} :
       \E v \in {FDiv(FAdd(local.i * Scale, jv.value), (call.image_height - 1) * Scale)} :
       \E res \in {SampleColour(call.camera, world, u, v, call.max_depth, jv.state)} :
          /\ res.tag = "Some"
          /\ RNG_STATE' = res.state
          /\ out' = [u |-> u, v |-> v, rng |-> jv.state, color |-> res.color]
          /\ local' = [local EXCEPT !.sample = @ + 1,
                                    !.pixel_color = VAdd(@, res.color)]
    /\ UNCHANGED <<pc, call, ray, world, depth, stack, log>>

\* write_color, and the step of the two outer loops
WritePixel ==
    /\ pc = "loop"
    /\ local.sample = call.samples_per_pixel
    /\ log' = Append(log, local.pixel_color)
    /\ IF local.j + 1 < call.image_width
       THEN /\ local' = [local EXCEPT !.j = @ + 1, !.sample = 0, !.pixel_color = BLACK]
            /\ pc' = pc
       ELSE IF local.i > 0
       THEN /\ local' = [local EXCEPT !.i = @ - 1, !.j = 0, !.sample = 0,
                                      !.pixel_color = BLACK]
            /\ pc' = pc
       ELSE /\ local' = local
            /\ pc' = "done"
    /\ UNCHANGED <<RNG_STATE, call, out, ray, world, depth, stack>>

NextRender == RenderSample \/ WritePixel

SpecRender == InitRender /\ [][NextRender]_vars

----------------------------------------------------------------------------
(* Claims about the samples of the render loop *)

\* C15: the colour of a pixel sample (send_ray_towards followed by get_ray_color) does
\* not depend on the samples computed before it: for the same camera, scene, sample
\* coordinates and max_depth it is the colour the same two calls give when nothing
\* was computed before them and the generator is at its seed.
C15_SampleIndependentOfEarlierSamples ==
    (call.op = "render" /\ out # <<>>) =>
        out.color = SampleColour(call.camera, world, out.u, out.v, call.max_depth,
                                 RNG_SEED).color

----------------------------------------------------------------------------
(* Claims about spheres of opposite radius *)

\* what the sphere with the same centre and material and the radius negated returns
\* for the same ray and window
Twin ==
    collide([call.sphere EXCEPT !.radius = -@], call.ray, call.t_min, call.t_max)

\* C16 as stated: spheres of radius r and -r return both None or both the same t and
\* position, report the same normal, which opposes the ray, and opposite values of
\* ray_is_inside whenever direction . (P - C) is nonzero.
C16_TwinSpheresAgree ==
    (pc = "ret" /\ call.op = "collide") =>
        /\ out.tag = Twin.tag
        /\ out.tag = "Some" =>
              /\ out.t = Twin.t
              /\ out.pos = Twin.pos
              /\ out.normal = Twin.normal
              /\ FLe(dot(call.ray.direction, out.normal), 0)
              /\ ~FEq(dot(call.ray.direction, VSub(out.pos, call.sphere.center)), 0)
                    => out.ray_is_inside = ~Twin.ray_is_inside

\* C16, amended: for a ray of nonzero direction, spheres of radius r and -r return
\* both None or both the same t and position, and a normal that opposes the ray; when
\* direction . outward_normal is nonzero they report the same normal and opposite
\* values of ray_is_inside; when it is 0 (a grazing hit) both report ray_is_inside
\* = true and their normals are opposite.
C16_TwinSpheresAgreeUnlessGrazing ==
    (pc = "ret" /\ call.op = "collide" /\ call.ray.direction # ZERO) =>
        /\ out.tag = Twin.tag
        /\ out.tag = "Some" =>
              /\ out.t = Twin.t
              /\ out.pos = Twin.pos
              /\ FLe(dot(call.ray.direction, out.normal), 0)
              /\ FLe(dot(call.ray.direction, Twin.normal), 0)
              /\ IF FEq(dot(call.ray.direction, OutwardNormal), 0)
                 THEN /\ out.ray_is_inside
                      /\ Twin.ray_is_inside
                      /\ out.normal = VNeg(Twin.normal)
                 ELSE /\ out.normal = Twin.normal
                      /\ out.ray_is_inside = ~Twin.ray_is_inside

\* a grazing hit: the two spheres report opposite normals
C16_GrazingHit ==
    /\ pc = "ret"
    /\ call.op = "collide"
    /\ out.tag = "Some"
    /\ call.sphere.radius > 0
    /\ FEq(dot(call.ray.direction, OutwardNormal), 0)
    /\ Twin.tag = "Some"
    /\ Twin.pos = out.pos
    /\ out.normal # Twin.normal
    /\ out.normal = VNeg(Twin.normal)

----------------------------------------------------------------------------
(* Claims about the Lambertian branch of Material::scatter *)

\* the random unit vector the call drew
RandomUnitVec == rand_unit_vec(call.rng).value

\* n + r when n . r > 0, else n - r
ClaimedScatterDirection(n, r) == IF FGt(dot(n, r), 0) THEN VAdd(n, r) ELSE VSub(n, r)

\* C17: for a unit hit normal n and the random unit vector r drawn, the Lambertian
\* scatter direction d (n + r when n . r > 0, else n - r) satisfies d . n >= 1 > 0;
\* d is not almost zero, so the ray returned has the direction d and not the
\* fallback.
C17_LambertianLeavesTheSurface ==
    (/\ pc = "ret"
     /\ call.op = "scatter"
     /\ call.material.kind = "Lambertian"
     /\ FEq(norm(call.reflection_normal), Scale))
    => Let(ClaimedScatterDirection(call.reflection_normal, RandomUnitVec), LAMBDA d :
           /\ out.tag = "Some"
           /\ FGe(dot(d, call.reflection_normal), Scale)
           /\ FGt(dot(d, call.reflection_normal), 0)
           /\ ~almost_zero(d)
           /\ out.ray.direction = d)

\* a diffuse bounce off an oblique normal the random vector points along
C17_DiffuseBounce ==
    /\ pc = "ret"
    /\ call.op = "scatter"
    /\ call.material.kind = "Lambertian"
    /\ call.reflection_normal = Vec3(0, Milli(600), Milli(800))
    /\ FGt(dot(call.reflection_normal, RandomUnitVec), 0)
    /\ out.tag = "Some"
    /\ out.ray.direction = VAdd(call.reflection_normal, RandomUnitVec)
    /\ FGt(dot(out.ray.direction, call.reflection_normal), Scale)

----------------------------------------------------------------------------
(* The generator over a whole run: any sequence of rand_f64 and rand_unit_vec *)
(* calls from the seed                                                        *)

I32_MAX == 2147483647

\* RNG_A * RNG_STATE + RNG_C, before the remainder is taken
Intermediate(s) == RNG_A * s + RNG_C

InitSequence ==
    /\ RNG_STATE = RNG_SEED
    /\ world = <<>>
    /\ ray = <<>>
    /\ depth = 0
    /\ pc = "run"
    /\ call = [op |-> "none", rng |-> RNG_SEED]
    /\ out = <<>>
    /\ stack = <<>>
    /\ local = <<>>
    /\ log = <<>>

\* rand_f64(0.0, 1.0)
NextRandF64 ==
    /\ pc = "run"
    /\ \E res \in {rand_f64(RNG_STATE, 0, Scale)} :
          /\ out' = res.value
          /\ RNG_STATE' = res.state
    /\ call' = [op |-> "rand_f64", rng |-> RNG_STATE]
    /\ local' = [intermediate |-> Intermediate(RNG_STATE)]
    /\ UNCHANGED <<pc, ray, world, depth, stack, log>>

\* rand_unit_vec(), returning or failing the assertion of to_unit_vec
NextRandUnitVec ==
    /\ pc = "run"
    /\ \E res \in {rand_unit_vec(RNG_STATE)} :
          /\ out' = IF res.panics THEN "to_unit_vec" ELSE res.value
          /\ pc' = IF res.panics THEN "panic" ELSE pc
          /\ RNG_STATE' = res.state
          /\ local' = [iterations |-> res.iterations]
    /\ call' = [op |-> "rand_unit_vec", rng |-> RNG_STATE]
    /\ UNCHANGED <<ray, world, depth, stack, log>>

NextSequence == NextRandF64 \/ NextRandUnitVec

SpecSequence == InitSequence /\ [][NextSequence]_vars

----------------------------------------------------------------------------
(* Claims about the generator's sequence *)

\* C18: from the seed 44, after any number of calls RNG_STATE lies in 0..134455; in
\* every rand_f64 call RNG_A * RNG_STATE + RNG_C stays within the signed 32-bit
\* range, the new state is (8121 * s + 28411) mod 134456 for the state s the call
\* started from, and RNG_STATE / (RNG_M - 1) lies in [0, 1].
C18_StateStaysInRange ==
    /\ RNG_STATE \in 0..134455
    /\ call.op = "rand_f64" =>
          /\ local.intermediate >= 0
          /\ local.intermediate <= I32_MAX
          /\ local.intermediate = 8121 * call.rng + 28411
          /\ RNG_STATE = (8121 * call.rng + 28411) % 134456
          /\ FGe(FRatio(RNG_STATE, RNG_M - 1), 0)
          /\ FLe(FRatio(RNG_STATE, RNG_M - 1), Scale)
          /\ out = FRatio(RNG_STATE, RNG_M - 1)

\* the largest state, which gives the largest intermediate value and t = 1
C18_LargestState ==
    /\ call.op = "rand_f64"
    /\ RNG_STATE = RNG_M - 1
    /\ out = Scale

\* the vector rand_vec(-10.0, 10.0) returns when the generator is in state s
FirstVector(s) == rand_vec(s, -10 * Scale, 10 * Scale).value

\* C19: every rand_unit_vec call, from whatever state the generator has reached,
\* returns after one iteration of its loop with the generator three steps on: the
\* vector it draws is not the zero vector and has a nonzero norm, so the assertion
\* of to_unit_vec is not reached.
C19_OneIterationSuffices ==
    /\ pc # "panic"
    /\ call.op = "rand_unit_vec" =>
          /\ ~VEq(FirstVector(call.rng), ZERO)
          /\ ~FEq(norm(FirstVector(call.rng)), 0)
          /\ local.iterations = 1
          /\ RNG_STATE = RngAfter(call.rng, 3)
          /\ out = to_unit_vec(FirstVector(call.rng))

\* a call whose first draw is too small to tell from 0, and whose vector is still
\* not the zero vector
C19_SmallestDraw ==
    /\ call.op = "rand_unit_vec"
    /\ FirstVector(call.rng)[1] = 0
    /\ local.iterations = 1
    /\ RNG_STATE = RngAfter(call.rng, 3)
    /\ out[1] = 0

====
